---- MODULE Spec2Model ----
(***************************************************************************)
(* A model of the icvlpr repository: the recognition-rate metric           *)
(* (metrics.py), the training loop that drives it (train.py), the decoder  *)
(* factory (hubconf.py), the ICVLPR network's run-time switches            *)
(* (model/model.py) and the localization network of the spatial            *)
(* transformer (model/stn.py).                                             *)
(*                                                                         *)
(* Each component has its own specification (SpecForward, SpecMetric, ...) *)
(* over the same variables; a specification leaves the variables of the    *)
(* other components unchanged.                                             *)
(***************************************************************************)
EXTENDS Integers, Sequences, FiniteSets, TLC

VARIABLES
    corrects,     \* LetterNumberRecognitionRate.corrects
    lengths,      \* LetterNumberRecognitionRate.lengths
    preds,        \* the preds argument of forward (pending, or of the last call)
    targets,      \* the targets argument of forward (pending, or of the last call)
    ret,          \* how the last forward call ended: a rate or an exception
    cumulative,   \* how the last result() call ended
    calls,        \* history: one entry per forward call, in order
    args,         \* Trainer.args: the parsed command line
    epoch,        \* Trainer.epoch
    range_next,   \* the next value of range(epoch_start, epoch_end) in Trainer.run
    pc,           \* where Trainer.run stands
    step,         \* batches of the current train() or eval() loop already done
    using_stn,    \* Trainer.model.using_stn: whether the model runs its rectifier
    stn_log,      \* history: the rectifier flag each train() and eval() ran with
    saved,        \* history: every save_model() call, in order
    hub_kwargs,   \* hubconf.decoder: the keyword arguments of the last call
    hub_ret,      \* hubconf.decoder: the decoder returned, or the exception raised
    constructed,  \* hubconf.decoder: every decoder constructor call made, in order
    hub_calls,    \* hubconf.decoder: number of calls made
    optimized,    \* whether the interpreter runs with -O (assert statements dropped)
    with_stn,     \* ICVLPR.with_stn
    with_gc,      \* ICVLPR.with_gc
    ctor,         \* ICVLPR.__init__: the arguments it was given
    model_op,     \* ICVLPR: the last method called and its argument
    model_ops,    \* ICVLPR: number of method calls made
    stages,       \* ICVLPR.forward: the stages the last call ran, in order
    x_in,         \* ICVLPR.forward: the image batch of the last call (its shape)
    out,          \* ICVLPR.forward: what the last call returned (its shape) or raised
    fusion,       \* forward_global_context: the backbone layers whose outputs it took
    fc2_weight,   \* LocNet.fc2.weight, 6 rows, in thousandths
    fc2_bias,     \* LocNet.fc2.bias, in thousandths
    xs,           \* LocNet.forward: the hidden features tanh(fc1(...)) of the last call
    theta,        \* LocNet.forward: the 2 x 3 matrix returned by the last call
    grid,         \* SpatialTransformerNetwork.forward: the sampling grid of the last call
    loc_calls,    \* number of SpatialTransformerNetwork.forward calls made
    train_steps,  \* number of optimizer steps made on the LocNet parameters
    scores,       \* the decoders' input: per time-step, the score of every class
    decoder_beam_width,  \* BeamCTCDecoder.beam_width
    greedy_out,   \* what the greedy decoder returned for scores
    beam_out,     \* what the beam decoder returned for scores
    decoded,      \* whether the two decoders have run
    corpus_dict,  \* ICVLPDataset.corpus_dict as the dataset object sees it
    labels_dict,  \* ICVLPDataset.labels_dict as the dataset object sees it
    ds_arg,       \* ICVLPDataset.__init__: "None" or "given", its corpus_dict argument
    ds_sets       \* number of assignments to corpus_dict made after construction

metricVars == <<corrects, lengths, preds, targets, ret, cumulative, calls>>

trainerVars == <<args, epoch, range_next, pc, step, using_stn, stn_log, saved>>

hubVars == <<hub_kwargs, hub_ret, constructed, hub_calls, optimized>>

modelVars == <<with_stn, with_gc, ctor, model_op, model_ops, stages, x_in, out, fusion>>

locVars == <<fc2_weight, fc2_bias, xs, theta, grid, loc_calls, train_steps>>

decodeVars == <<scores, decoder_beam_width, greedy_out, beam_out, decoded>>

datasetVars == <<corpus_dict, labels_dict, ds_arg, ds_sets>>

vars == <<metricVars, trainerVars, hubVars, modelVars, locVars, decodeVars, datasetVars>>

\* What the actions of one component leave alone.
frameMetric == <<trainerVars, hubVars, modelVars, locVars, decodeVars, datasetVars>>
frameTrain == <<hubVars, modelVars, locVars, decodeVars, datasetVars>>
frameHub == <<metricVars, trainerVars, modelVars, locVars, decodeVars, datasetVars>>
frameModel == <<metricVars, trainerVars, hubVars, locVars, decodeVars, datasetVars>>
frameLoc == <<metricVars, trainerVars, hubVars, modelVars, decodeVars, datasetVars>>
frameDecode == <<metricVars, trainerVars, hubVars, modelVars, locVars, datasetVars>>
frameDataset == <<metricVars, trainerVars, hubVars, modelVars, locVars, decodeVars>>

----------------------------------------------------------------------------
(* Bounds of the model and constants of the program.                       *)

\* Largest number of samples (rows) in one batch.
MaxBatch == 2

\* Largest number of forward calls on one metric instance in SpecMetric.
MaxCalls == 2

\* Largest epoch number on the command line in SpecTrain.
MaxEpoch == 2

\* Largest --checkpoint-save-interval on the command line in SpecTrain.
MaxInterval == 2

\* Largest number of hubconf.decoder calls in SpecHub.
MaxHubCalls == 2

\* Largest beam_width a caller passes in SpecHub.
MaxBeamWidth == 2

\* Largest number of ICVLPR method calls after construction in SpecModel.
MaxModelOps == 3

\* Number of hidden features fc2 reads in SpecLoc (32 in the program).
HiddenDim == 2

\* Largest number of SpatialTransformerNetwork.forward calls in SpecLoc.
MaxLocCalls == 1

\* Largest number of time-steps of a logit grid in SpecDecode.
MaxSteps == 2

\* Largest number of optimizer steps in SpecLoc.
MaxTrainSteps == 2

\* Largest class index of an alternate vocabulary in SpecDataset.
MaxIndex == 2

\* Largest number of assignments to corpus_dict after construction in SpecDataset.
MaxSets == 1

\* Index of the blank token (metrics.py: blank=0; train.py passes blank=0).
blank == 0

\* The genuine symbols of the (cut down) vocabulary.
Symbols == {1, 2}

\* One padded target row: two time-steps, padding reuses the blank index.
TargetRows == [1..2 -> {blank} \cup Symbols]

\* One decoded sequence: blank-free, of length 0, 1 or 2.
PredRows == {<<>>} \cup [1..1 -> Symbols] \cup [1..2 -> Symbols]

NonBlankClass(c) == c # 0

Min(a, b) == IF a < b THEN a ELSE b

\* Sequences of exactly n elements of S.
Tuples(S, n) == [1..n -> S]

\* A tensor is its rank and its nested-list content (Tensor.tolist()).
Rank2(d) == [dim |-> 2, data |-> d]

\* Calls with a target that is not batch x time: a rank-1 and a rank-3 tensor.
BadRankCalls ==
    {[preds |-> <<<<1, 2>>>>, targets |-> [dim |-> 1, data |-> r]] : r \in TargetRows}
    \cup {[preds |-> <<<<1, 2>>>>, targets |-> [dim |-> 3, data |-> <<<<r>>>>]] : r \in TargetRows}

----------------------------------------------------------------------------
(* metrics.py: LetterNumberRecognitionRate                                 *)

\* What a call can end with.
NoValue == [kind |-> "none", num |-> 0, den |-> 0]
Rate(c, l) == [kind |-> "rate", num |-> c, den |-> l]
Raised(exc) == [kind |-> exc, num |-> 0, den |-> 0]

NotRead == [value |-> NoValue, after |-> 0]

\* Python's corrects / lengths: a float quotient, or ZeroDivisionError.
TrueDiv(c, l) == IF l = 0 THEN Raised("ZeroDivisionError") ELSE Rate(c, l)

\* if targets.dim() != 2: raise ValueError
TargetsDimInvalidLax(t) == t.dim < 2
TargetsDimInvalid(t) == t.dim # 2

\* [token for token in sequence if token != self.blank]
RemoveBlankKeepAll(sequence) == sequence
RECURSIVE RemoveBlank(_)
RemoveBlank(sequence) ==
    IF sequence = <<>> THEN <<>>
    ELSE IF Head(sequence) # blank
         THEN <<Head(sequence)>> \o RemoveBlank(Tail(sequence))
         ELSE RemoveBlank(Tail(sequence))

\* The list comprehension over the rows of targets.tolist().  The tokens of a
\* rank-2 tensor are numbers; those of a rank-3 tensor are lists, and a list
\* never equals the blank number, so every one of them is kept.
AlignedTargets(t) ==
    IF t.dim = 2 THEN [i \in 1..Len(t.data) |-> RemoveBlank(t.data[i])]
    ELSE t.data

\* for pred, target in zip(pred_sequence, target_sequence): if pred == target
RECURSIVE NumCorrectInverted(_, _, _)
NumCorrectInverted(dim, pred_sequence, target_sequence) ==
    IF pred_sequence = <<>> \/ target_sequence = <<>> THEN 0
    ELSE (IF dim = 2 /\ Head(pred_sequence) # Head(target_sequence) THEN 1 ELSE 0)
         + NumCorrectInverted(dim, Tail(pred_sequence), Tail(target_sequence))
RECURSIVE NumCorrect(_, _, _)
NumCorrect(dim, pred_sequence, target_sequence) ==
    IF pred_sequence = <<>> \/ target_sequence = <<>> THEN 0
    ELSE (IF dim = 2 /\ Head(pred_sequence) = Head(target_sequence) THEN 1 ELSE 0)
         + NumCorrect(dim, Tail(pred_sequence), Tail(target_sequence))

\* for pred_sequence, target_sequence in zip(preds, aligned_targets):
\*     corrects += num_correct; lengths += len(target_sequence)
RECURSIVE BatchCount(_, _, _)
BatchCount(dim, p, aligned) ==
    IF p = <<>> \/ aligned = <<>> THEN [corrects |-> 0, lengths |-> 0]
    ELSE LET rest == BatchCount(dim, Tail(p), Tail(aligned))
         IN [corrects |-> NumCorrect(dim, Head(p), Head(aligned)) + rest.corrects,
             lengths |-> Len(Head(aligned)) + rest.lengths]

\* self.corrects += corrects; self.lengths += lengths
AccumulateOverwrite(running, batch_value) == batch_value
Accumulate(running, batch_value) == running + batch_value

\* forward(preds, targets), the whole call.
Forward(p, t) ==
    /\ preds' = p
    /\ targets' = t
    /\ UNCHANGED cumulative
    /\ IF TargetsDimInvalid(t)
       THEN /\ ret' = Raised("ValueError")
            /\ calls' = Append(calls, [dim |-> t.dim, ret |-> Raised("ValueError")])
            /\ UNCHANGED <<corrects, lengths>>
       ELSE IF t.dim < 2
       THEN \* the comprehension iterates a number: TypeError, nothing counted
            /\ ret' = Raised("TypeError")
            /\ calls' = Append(calls, [dim |-> t.dim, ret |-> Raised("TypeError")])
            /\ UNCHANGED <<corrects, lengths>>
       ELSE LET batch == BatchCount(t.dim, p, AlignedTargets(t))
            IN /\ corrects' = Accumulate(corrects, batch.corrects)
               /\ lengths' = Accumulate(lengths, batch.lengths)
               /\ ret' = TrueDiv(batch.corrects, batch.lengths)
               /\ calls' = Append(calls, [dim |-> t.dim,
                                          ret |-> TrueDiv(batch.corrects, batch.lengths)])

\* result(); the history field "after" is the number of forward calls made
\* before this read.
Result ==
    /\ cumulative' = [value |-> TrueDiv(corrects, lengths), after |-> Len(calls)]
    /\ UNCHANGED <<corrects, lengths, preds, targets, ret, calls>>

\* The trainer before it is constructed; the metric specifications leave it so.
TrainerIdle ==
    /\ args = [epoch_start |-> 0, epoch_end |-> 0, stn_enable_at |-> 0,
               checkpoint_save_interval |-> 1, save_last |-> FALSE]
    /\ epoch = 0
    /\ range_next = 0
    /\ pc = "idle"
    /\ step = 0
    /\ using_stn = FALSE
    /\ stn_log = {}
    /\ saved = <<>>

\* hubconf.decoder not yet called.
HubIdle ==
    /\ hub_kwargs = <<>>
    /\ hub_ret = [kind |-> "none", kwargs |-> <<>>]
    /\ constructed = <<>>
    /\ hub_calls = 0
    /\ optimized = FALSE

\* No ICVLPR constructed.
ModelIdle ==
    /\ with_stn = FALSE
    /\ with_gc = FALSE
    /\ ctor = [num_classes |-> 0, input_channels |-> 0, stn |-> FALSE, gc |-> FALSE]
    /\ model_op = [op |-> "none", enable |-> FALSE]
    /\ model_ops = 0
    /\ stages = <<>>
    /\ x_in = [kind |-> "none", shape |-> <<>>]
    /\ out = [kind |-> "none", shape |-> <<>>]
    /\ fusion = <<>>

\* No LocNet constructed.
LocIdle ==
    /\ fc2_weight = <<>>
    /\ fc2_bias = <<>>
    /\ xs = <<>>
    /\ theta = <<>>
    /\ grid = <<>>
    /\ loc_calls = 0
    /\ train_steps = 0

\* No decoder has been given anything.
DecodeIdle ==
    /\ scores = <<>>
    /\ decoder_beam_width = 0
    /\ greedy_out = <<>>
    /\ beam_out = <<>>
    /\ decoded = FALSE

\* No dataset object has been constructed.
DatasetIdle ==
    /\ corpus_dict = <<>>
    /\ labels_dict = <<>>
    /\ ds_arg = "none"
    /\ ds_sets = 0

\* The metric before any call, with no argument pending.
MetricIdle ==
    /\ corrects = 0
    /\ lengths = 0
    /\ preds = <<>>
    /\ targets = [dim |-> 2, data |-> <<>>]
    /\ ret = [kind |-> "none", num |-> 0, den |-> 0]
    /\ cumulative = [value |-> [kind |-> "none", num |-> 0, den |-> 0], after |-> 0]
    /\ calls = <<>>

\* __init__: both counters start at zero.
MetricInit ==
    /\ corrects = 0
    /\ lengths = 0
    /\ ret = NoValue
    /\ cumulative = NotRead
    /\ calls = <<>>

----------------------------------------------------------------------------
(* SpecForward: one forward call on a fresh metric, for every batch.       *)

InitForward ==
    /\ MetricInit
    /\ TrainerIdle /\ HubIdle /\ ModelIdle /\ LocIdle /\ DecodeIdle /\ DatasetIdle
    /\ \/ \E n \in 1..MaxBatch : \E p \in Tuples(PredRows, n), d \in Tuples(TargetRows, n) :
              preds = p /\ targets = Rank2(d)
       \/ \E b \in BadRankCalls : preds = b.preds /\ targets = b.targets

CallForward == calls = <<>> /\ Forward(preds, targets) /\ UNCHANGED frameMetric

ReadResult == calls # <<>> /\ cumulative = NotRead /\ Result /\ UNCHANGED frameMetric

NextForward == CallForward \/ ReadResult

SpecForward == InitForward /\ [][NextForward]_vars

----------------------------------------------------------------------------
(* SpecMetric: a sequence of forward and result() calls on one instance.   *)

InitMetric ==
    /\ MetricInit
    /\ TrainerIdle /\ HubIdle /\ ModelIdle /\ LocIdle /\ DecodeIdle /\ DatasetIdle
    /\ preds = <<>>
    /\ targets = [dim |-> 2, data |-> <<>>]

CallMetric ==
    /\ Len(calls) < MaxCalls
    /\ \/ \E p \in Tuples(PredRows, 1), d \in Tuples(TargetRows, 1) : Forward(p, Rank2(d))
       \/ \E b \in BadRankCalls : Forward(b.preds, b.targets)
    /\ UNCHANGED frameMetric

ReadCumulative == Result /\ UNCHANGED frameMetric

NextMetric == CallMetric \/ ReadCumulative

SpecMetric == InitMetric /\ [][NextMetric]_vars

----------------------------------------------------------------------------
(* train.py: Trainer.  SpecTrain is one training run: __init__ up to       *)
(* init_metrics, then run().                                               *)

\* The padded target tensors the two loaders yield, one batch of one plate each
\* ("AB" for training, "B" padded with one blank for validation).
dl_train == <<Rank2(<<<<1, 2>>>>)>>
dl_val == <<Rank2(<<<<2, blank>>>>)>>

\* self.decoder(logits): one decoded sequence per sample of the batch.
DecoderOutputs(t) == Tuples(PredRows, Len(t.data))

\* model.use_stn(enable): the value of model.using_stn after the call.  The
\* model class the trainer imports is not part of the sources; the call is the
\* run-time rectifier switch, which sets the flag that using_stn reads.
UseStn(enable) == enable

\* activate_stn(): the value of model.using_stn it leaves, in epoch e.
ActivateStnAtOnce(e) == UseStn(TRUE)
ActivateStn(e) ==
    IF ~using_stn /\ e > args.stn_enable_at THEN UseStn(TRUE) ELSE using_stn

\* save(): if self.epoch % self.args.checkpoint_save_interval == 0
SaveDue == epoch % args.checkpoint_save_interval = 0

\* cleanup(): the condition under which it saves the last epoch.
CleanupSavesAnyLast == args.save_last /\ args.epoch_end = epoch
CleanupSaves ==
    /\ args.save_last
    /\ args.epoch_end = epoch
    /\ epoch % args.checkpoint_save_interval # 0

\* save_model(): writes <prefix>_<epoch>.pth; by names the caller.
SaveModel(by) == saved' = Append(saved, [epoch |-> epoch, by |-> by])

\* train() and eval() run the model with the rectifier flag as it stands.
LogStn(phase) ==
    stn_log' = stn_log \cup {[epoch |-> epoch, phase |-> phase, using_stn |-> using_stn]}

\* __init__: self.epoch = 0, parse_args, init_model (use_stn(False)), ...,
\* init_metrics, then run() starts its range(epoch_start, epoch_end).
InitTrain ==
    /\ HubIdle /\ ModelIdle /\ LocIdle /\ DecodeIdle /\ DatasetIdle
    /\ MetricInit
    /\ preds = <<>>
    /\ targets = Rank2(<<>>)
    /\ \E s \in 0..MaxEpoch, e \in 0..MaxEpoch, m \in 0..MaxEpoch,
          i \in 1..MaxInterval, l \in BOOLEAN :
            args = [epoch_start |-> s, epoch_end |-> e, stn_enable_at |-> m,
                    checkpoint_save_interval |-> i, save_last |-> l]
    /\ epoch = 0
    /\ range_next = args.epoch_start
    /\ pc = "loop"
    /\ step = 0
    /\ using_stn = UseStn(FALSE)
    /\ stn_log = {}
    /\ saved = <<>>

\* for epoch in range(...): self.epoch = epoch + 1; self.activate_stn()
RunNextEpoch ==
    /\ pc = "loop"
    /\ range_next < args.epoch_end
    /\ epoch' = range_next + 1
    /\ range_next' = range_next + 1
    /\ using_stn' = ActivateStn(range_next + 1)
    /\ pc' = "train"
    /\ step' = 0
    /\ UNCHANGED <<args, stn_log, saved, metricVars, frameTrain>>

\* One iteration of the loop of train(): running_rln += self.rln(preds, targets)
TrainStep ==
    /\ pc = "train"
    /\ step < Len(dl_train)
    /\ \E p \in DecoderOutputs(dl_train[step + 1]) : Forward(p, dl_train[step + 1])
    /\ step' = step + 1
    /\ LogStn("train")
    /\ UNCHANGED <<args, epoch, range_next, pc, using_stn, saved, frameTrain>>

\* The train loader is exhausted: self.model.eval(); self.eval()
TrainDone ==
    /\ pc = "train"
    /\ step = Len(dl_train)
    /\ pc' = "eval"
    /\ step' = 0
    /\ UNCHANGED <<args, epoch, range_next, using_stn, stn_log, saved, metricVars, frameTrain>>

\* One iteration of the loop of eval(): running_rln += self.rln(preds, targets)
EvalStep ==
    /\ pc = "eval"
    /\ step < Len(dl_val)
    /\ \E p \in DecoderOutputs(dl_val[step + 1]) : Forward(p, dl_val[step + 1])
    /\ step' = step + 1
    /\ LogStn("eval")
    /\ UNCHANGED <<args, epoch, range_next, pc, using_stn, saved, frameTrain>>

\* The validation loader is exhausted: the epoch's batches are all counted.
EvalDone ==
    /\ pc = "eval"
    /\ step = Len(dl_val)
    /\ pc' = "epoch_end"
    /\ UNCHANGED <<args, epoch, range_next, step, using_stn, stn_log, saved, metricVars,
                 frameTrain>>

\* log_epoch(), save(), lr_scheduler.step(): back to the loop header.
EpochEnd ==
    /\ pc = "epoch_end"
    /\ IF SaveDue THEN SaveModel("save") ELSE UNCHANGED saved
    /\ pc' = "loop"
    /\ UNCHANGED <<args, epoch, range_next, step, using_stn, stn_log, metricVars, frameTrain>>

\* The range is exhausted: run() returns and __init__ goes on to cleanup().
RunReturn ==
    /\ pc = "loop"
    /\ range_next >= args.epoch_end
    /\ pc' = "cleanup"
    /\ UNCHANGED <<args, epoch, range_next, step, using_stn, stn_log, saved, metricVars,
                 frameTrain>>

\* cleanup(): saves the last epoch unless save() already did.
Cleanup ==
    /\ pc = "cleanup"
    /\ IF CleanupSaves THEN SaveModel("cleanup") ELSE UNCHANGED saved
    /\ pc' = "done"
    /\ UNCHANGED <<args, epoch, range_next, step, using_stn, stn_log, metricVars, frameTrain>>

NextTrain ==
    \/ RunNextEpoch \/ TrainStep \/ TrainDone \/ EvalStep \/ EvalDone
    \/ EpochEnd \/ RunReturn \/ Cleanup

SpecTrain == InitTrain /\ [][NextTrain]_vars

----------------------------------------------------------------------------
(* hubconf.py: decoder(decoder="greedy", beam_width=5)                     *)

\* def decoder(decoder: str = "greedy", beam_width: int = 5)
DefaultDecoder == "greedy"
DefaultBeamWidth == 5

\* The keyword arguments a caller passes: each parameter given or left out.
DecoderKinds == {"greedy", "beam", "viterbi", "Beam", ""}

HubKwargs ==
    {<<>>}
    \cup {[decoder |-> k] : k \in DecoderKinds}
    \cup {[beam_width |-> w] : w \in 1..MaxBeamWidth}
    \cup {[decoder |-> k, beam_width |-> w] : k \in DecoderKinds, w \in 1..MaxBeamWidth}

\* Python binds a parameter to the argument given, else to its default.
BindDecoderBeamDefault(kwargs) ==
    IF "decoder" \in DOMAIN kwargs THEN kwargs.decoder ELSE "beam"
BindDecoder(kwargs) ==
    IF "decoder" \in DOMAIN kwargs THEN kwargs.decoder ELSE DefaultDecoder

BindBeamWidth(kwargs) ==
    IF "beam_width" \in DOMAIN kwargs THEN kwargs.beam_width ELSE DefaultBeamWidth

\* assert decoder in ["greedy", "beam"]
DecoderKindValid(kind) == kind \in {"greedy", "beam"}

\* GreedyCTCDecoder() and BeamCTCDecoder(beam_width=beam_width)
GreedyCall == [kind |-> "GreedyCTCDecoder", kwargs |-> <<>>]
BeamCallDefaultWidth(beam_width) ==
    [kind |-> "BeamCTCDecoder", kwargs |-> [beam_width |-> DefaultBeamWidth]]
BeamCall(beam_width) == [kind |-> "BeamCTCDecoder", kwargs |-> [beam_width |-> beam_width]]

HubRaised(exc) == [kind |-> exc, kwargs |-> <<>>]

\* decoder(**kwargs), the whole call.  With assert statements dropped (-O) an
\* unknown kind passes both branches and "return ret" reads an unbound local.
Decoder(kwargs) ==
    LET decoder == BindDecoder(kwargs)
        beam_width == BindBeamWidth(kwargs)
    IN /\ hub_kwargs' = kwargs
       /\ hub_calls' = hub_calls + 1
       /\ UNCHANGED optimized
       /\ IF ~optimized /\ ~DecoderKindValid(decoder)
          THEN hub_ret' = HubRaised("AssertionError") /\ UNCHANGED constructed
          ELSE IF decoder = "greedy"
          THEN hub_ret' = GreedyCall /\ constructed' = Append(constructed, GreedyCall)
          ELSE IF decoder = "beam"
          THEN /\ hub_ret' = BeamCall(beam_width)
               /\ constructed' = Append(constructed, BeamCall(beam_width))
          ELSE hub_ret' = HubRaised("UnboundLocalError") /\ UNCHANGED constructed

InitHub ==
    /\ MetricIdle /\ TrainerIdle /\ ModelIdle /\ LocIdle /\ DecodeIdle /\ DatasetIdle
    /\ hub_kwargs = <<>>
    /\ hub_ret = [kind |-> "none", kwargs |-> <<>>]
    /\ constructed = <<>>
    /\ hub_calls = 0
    /\ optimized \in BOOLEAN

CallDecoder ==
    /\ hub_calls < MaxHubCalls
    /\ \E kwargs \in HubKwargs : Decoder(kwargs)
    /\ UNCHANGED frameHub

NextHub == CallDecoder

SpecHub == InitHub /\ [][NextHub]_vars

----------------------------------------------------------------------------
(* model/model.py: ICVLPR, its two switches and the stages forward runs.   *)

\* A tensor is known by its shape; a failed operation by its exception.
NoTensor == [kind |-> "none", shape |-> <<>>]
Tensor(shape) == [kind |-> "Tensor", shape |-> shape]
Failed(exc) == [kind |-> exc, shape |-> <<>>]

\* The image batches forward is given: n images, 1 or 3 channels, 24 x 94.
Images == {Tensor(<<n, c, 24, 94>>) : n \in 1..MaxBatch, c \in {1, 3}}

\* padding='same' for an odd kernel and stride 1.
SamePadding(kernel_size) == <<(kernel_size[1] - 1) \div 2, (kernel_size[2] - 1) \div 2>>

\* nn.Conv2d: the input must have in_channels channels.
Conv2d(x, in_channels, out_channels, kernel_size, stride, padding) ==
    IF x.kind # "Tensor" THEN x
    ELSE IF x.shape[2] # in_channels THEN Failed("RuntimeError")
    ELSE Tensor(<<x.shape[1], out_channels,
                  (x.shape[3] + 2 * padding[1] - kernel_size[1]) \div stride[1] + 1,
                  (x.shape[4] + 2 * padding[2] - kernel_size[2]) \div stride[2] + 1>>)

\* nn.BatchNorm2d(num_features): shape kept, the channels must match.
BatchNorm2d(x, num_features) ==
    IF x.kind # "Tensor" THEN x
    ELSE IF x.shape[2] # num_features THEN Failed("RuntimeError")
    ELSE x

\* nn.MaxPool2d(kernel_size, stride), no padding.
MaxPool2d(x, kernel_size, stride) ==
    IF x.kind # "Tensor" THEN x
    ELSE Tensor(<<x.shape[1], x.shape[2],
                  (x.shape[3] - kernel_size[1]) \div stride[1] + 1,
                  (x.shape[4] - kernel_size[2]) \div stride[2] + 1>>)

\* F.adaptive_avg_pool2d / nn.AdaptiveMaxPool2d: the output size is given.
AdaptivePool2d(x, output_size) ==
    IF x.kind # "Tensor" THEN x
    ELSE Tensor(<<x.shape[1], x.shape[2], output_size[1], output_size[2]>>)

\* torch.cat(tensors, dim=1): every other dimension must agree.
RECURSIVE SumChannels(_)
SumChannels(tensors) ==
    IF tensors = <<>> THEN 0 ELSE Head(tensors).shape[2] + SumChannels(Tail(tensors))

Cat(tensors) ==
    IF \E i \in 1..Len(tensors) : tensors[i].kind # "Tensor"
    THEN tensors[CHOOSE i \in 1..Len(tensors) : tensors[i].kind # "Tensor"]
    ELSE IF \E i \in 1..Len(tensors) :
                \/ Len(tensors[i].shape) # Len(tensors[1].shape)
                \/ \E d \in (1..Len(tensors[1].shape)) \ {2} :
                      tensors[i].shape[d] # tensors[1].shape[d]
    THEN Failed("RuntimeError")
    ELSE Tensor([d \in 1..Len(tensors[1].shape) |->
                    IF d = 2 THEN SumChannels(tensors) ELSE tensors[1].shape[d]])

\* nn.Linear(in_features, out_features) on a (N, features) tensor.
Linear(x, in_features, out_features) ==
    IF x.kind # "Tensor" THEN x
    ELSE IF x.shape[2] # in_features THEN Failed("RuntimeError")
    ELSE Tensor(<<x.shape[1], out_features>>)

\* Tensor.flatten(start_dim=1)
Flatten(x) ==
    IF x.kind # "Tensor" THEN x
    ELSE Tensor(<<x.shape[1], x.shape[2] * x.shape[3] * x.shape[4]>>)

\* blocks.py, SmallBasicBlock(in_channels, out_channels): 1x1 reduction to a
\* quarter, 3x1, 1x3, 1x1 expansion, each with BatchNorm2d and ReLU.
SmallBasicBlock(x, in_channels, out_channels) ==
    LET out_div4 == out_channels \div 4
        b1 == BatchNorm2d(Conv2d(x, in_channels, out_div4, <<1, 1>>, <<1, 1>>,
                                 SamePadding(<<1, 1>>)), out_div4)
        b2 == BatchNorm2d(Conv2d(b1, out_div4, out_div4, <<3, 1>>, <<1, 1>>, <<1, 0>>), out_div4)
        b3 == BatchNorm2d(Conv2d(b2, out_div4, out_div4, <<1, 3>>, <<1, 1>>, <<0, 1>>), out_div4)
    IN BatchNorm2d(Conv2d(b3, out_div4, out_channels, <<1, 1>>, <<1, 1>>,
                          SamePadding(<<1, 1>>)), out_channels)

\* stn.py, LocNet.forward on shapes: theta is (N, 2, 3).
LocNetShape(x) ==
    LET x1 == Conv2d(AdaptivePool2d(x, <<16, 58>>), 3, 32, <<5, 5>>, <<3, 3>>, <<0, 0>>)
        x2 == Conv2d(x, 3, 32, <<5, 5>>, <<5, 5>>, <<0, 0>>)
        h == Linear(Linear(Flatten(Cat(<<x1, x2>>)), 4608, 32), 32, 6)
    IN IF h.kind # "Tensor" THEN h ELSE Tensor(<<h.shape[1], 2, 3>>)

\* stn.py, SpatialTransformerNetwork.forward on shapes: affine_grid(theta,
\* x.size()) and grid_sample give a tensor of the size of x.
StnLayer(x) == IF LocNetShape(x).kind # "Tensor" THEN LocNetShape(x) ELSE x

\* self.backbone, in the order of the ModuleDict.
Layer(name, type, in_channels, out_channels, kernel_size, stride, padding) ==
    [name |-> name, type |-> type, in_channels |-> in_channels,
     out_channels |-> out_channels, kernel_size |-> kernel_size,
     stride |-> stride, padding |-> padding]

Backbone(input_channels) == <<
    Layer("conv_1", "Conv2d", input_channels, 64, <<3, 3>>, <<1, 1>>, <<1, 1>>),
    Layer("bn_1", "BatchNorm2d", 64, 64, <<1, 1>>, <<1, 1>>, <<0, 0>>),
    Layer("relu_1", "ReLU", 64, 64, <<1, 1>>, <<1, 1>>, <<0, 0>>),
    Layer("max_pool_1", "MaxPool2d", 64, 64, <<3, 3>>, <<1, 1>>, <<0, 0>>),
    Layer("basic_block_1", "SmallBasicBlock", 64, 128, <<1, 1>>, <<1, 1>>, <<0, 0>>),
    Layer("max_pool_2", "MaxPool2d", 128, 128, <<3, 3>>, <<2, 1>>, <<0, 0>>),
    Layer("basic_block_2", "SmallBasicBlock", 128, 256, <<1, 1>>, <<1, 1>>, <<0, 0>>),
    Layer("basic_block_3", "SmallBasicBlock", 256, 256, <<1, 1>>, <<1, 1>>, <<0, 0>>),
    Layer("max_pool_3", "MaxPool2d", 256, 256, <<3, 3>>, <<2, 1>>, <<0, 0>>),
    Layer("dropout_1", "Dropout2d", 256, 256, <<1, 1>>, <<1, 1>>, <<0, 0>>),
    Layer("conv_2", "Conv2d", 256, 256, <<4, 1>>, <<1, 1>>, <<1, 1>>),
    Layer("bn_2", "BatchNorm2d", 256, 256, <<1, 1>>, <<1, 1>>, <<0, 0>>),
    Layer("relu_2", "ReLU", 256, 256, <<1, 1>>, <<1, 1>>, <<0, 0>>),
    Layer("dropout_2", "Dropout2d", 256, 256, <<1, 1>>, <<1, 1>>, <<0, 0>>) >>

BackboneNames == [i \in 1..Len(Backbone(3)) |-> Backbone(3)[i].name]

\* x = self.backbone[layer](x)
ApplyLayer(x, layer) ==
    CASE layer.type = "Conv2d" ->
             Conv2d(x, layer.in_channels, layer.out_channels, layer.kernel_size,
                    layer.stride, layer.padding)
      [] layer.type = "BatchNorm2d" -> BatchNorm2d(x, layer.out_channels)
      [] layer.type = "MaxPool2d" -> MaxPool2d(x, layer.kernel_size, layer.stride)
      [] layer.type = "SmallBasicBlock" ->
             SmallBasicBlock(x, layer.in_channels, layer.out_channels)
      [] OTHER -> x

\* __init__(num_classes, input_channels, stn, gc): the assert on
\* input_channels, then self.with_gc = gc; self.with_stn = stn.
InputChannelsValid(input_channels) == input_channels \in {1, 3}

\* A construction with another channel count raises AssertionError: there is no
\* object, and nothing can be called on it.
InitModel ==
    /\ MetricIdle /\ TrainerIdle /\ HubIdle /\ LocIdle /\ DecodeIdle /\ DatasetIdle
    /\ \E k \in {4, 37}, c \in {1, 2, 3}, s \in BOOLEAN, g \in BOOLEAN :
          /\ ctor = [num_classes |-> k, input_channels |-> c, stn |-> s, gc |-> g]
          /\ IF InputChannelsValid(c)
             THEN /\ with_stn = s
                  /\ with_gc = g
                  /\ model_op = [op |-> "__init__", enable |-> FALSE]
             ELSE /\ with_stn = FALSE
                  /\ with_gc = FALSE
                  /\ model_op = [op |-> "AssertionError", enable |-> FALSE]
    /\ model_ops = 0
    /\ stages = <<>>
    /\ x_in = NoTensor
    /\ out = NoTensor
    /\ fusion = <<>>

Constructed == model_op.op # "AssertionError"

\* def stn(self, enable=True): self.with_stn = enable
StnSetsGc(enable) ==
    /\ with_gc' = enable
    /\ model_op' = [op |-> "stn", enable |-> enable]
    /\ model_ops' = model_ops + 1
    /\ UNCHANGED <<with_stn, ctor, stages, x_in, out, fusion>>
Stn(enable) ==
    /\ with_stn' = enable
    /\ model_op' = [op |-> "stn", enable |-> enable]
    /\ model_ops' = model_ops + 1
    /\ UNCHANGED <<with_gc, ctor, stages, x_in, out, fusion>>

\* def gc(self, enable=True): self.with_gc = enable
Gc(enable) ==
    /\ with_gc' = enable
    /\ model_op' = [op |-> "gc", enable |-> enable]
    /\ model_ops' = model_ops + 1
    /\ UNCHANGED <<with_stn, ctor, stages, x_in, out, fusion>>

\* forward(x): stn_layer if with_stn; every backbone layer; then
\* forward_global_context if with_gc; then pre_decoder.
ForwardStages ==
    (IF with_stn THEN <<"stn_layer">> ELSE <<>>)
    \o <<"backbone">>
    \o (IF with_gc THEN <<"forward_global_context">> ELSE <<>>)
    \o <<"pre_decoder">>

\* backbone_outputs, when with_gc: the output of every backbone layer.
RECURSIVE BackboneOutputs(_, _, _)
BackboneOutputs(x, layers, i) ==
    IF i > Len(layers) THEN <<>>
    ELSE LET y == ApplyLayer(x, layers[i])
         IN <<y>> \o BackboneOutputs(y, layers, i + 1)

\* inputs = [backbone_outputs[3], [4], [6], [7]] and x = backbone_outputs[-1]
GcInputs == <<3, 4, 6, 7>>

\* forward_global_context: the four maps pooled to (3, 90), the last output
\* scaled, all concatenated along the channels, then gc_depth_adjust_layer.
ForwardGlobalContext(backbone_outputs) ==
    LET outputs == [i \in 1..Len(GcInputs) |->
                       AdaptivePool2d(backbone_outputs[GcInputs[i] + 1], <<3, 90>>)]
        scale_5 == backbone_outputs[Len(backbone_outputs)]
        x == Cat(outputs \o <<scale_5>>)
    IN BatchNorm2d(Conv2d(x, 960, 256, <<1, 1>>, <<1, 1>>, <<0, 0>>), 256)

\* The backbone layers whose outputs forward_global_context reads.
FusionLayers ==
    [i \in 1..Len(GcInputs) |-> BackboneNames[GcInputs[i] + 1]]
    \o <<BackboneNames[Len(BackboneNames)]>>

\* pre_decoder: Conv2d(256, num_classes, (1, 13), padding='same'), BatchNorm2d.
PreDecoder(x) ==
    BatchNorm2d(Conv2d(x, 256, ctor.num_classes, <<1, 13>>, <<1, 1>>, SamePadding(<<1, 13>>)),
                ctor.num_classes)

\* forward(x): what it returns for the image batch x with the flags as they are.
ForwardOutput(x) ==
    LET x1 == IF with_stn THEN StnLayer(x) ELSE x
        backbone_outputs == BackboneOutputs(x1, Backbone(ctor.input_channels), 1)
        x2 == backbone_outputs[Len(backbone_outputs)]
        x3 == IF with_gc THEN ForwardGlobalContext(backbone_outputs) ELSE x2
    IN PreDecoder(x3)

ModelForward(x) ==
    /\ stages' = ForwardStages
    /\ x_in' = x
    /\ out' = ForwardOutput(x)
    /\ fusion' = IF with_gc THEN FusionLayers ELSE <<>>
    /\ model_op' = [op |-> "forward", enable |-> FALSE]
    /\ model_ops' = model_ops + 1
    /\ UNCHANGED <<with_stn, with_gc, ctor>>

CallStn ==
    /\ Constructed /\ model_ops < MaxModelOps
    /\ \E enable \in BOOLEAN : Stn(enable)
    /\ UNCHANGED frameModel

CallGc ==
    /\ Constructed /\ model_ops < MaxModelOps
    /\ \E enable \in BOOLEAN : Gc(enable)
    /\ UNCHANGED frameModel

CallModelForward ==
    /\ Constructed /\ model_ops < MaxModelOps
    /\ \E x \in Images : ModelForward(x)
    /\ UNCHANGED frameModel

NextModel == CallStn \/ CallGc \/ CallModelForward

SpecModel == InitModel /\ [][NextModel]_vars

----------------------------------------------------------------------------
(* model/stn.py: LocNet and SpatialTransformerNetwork, in fixed point.     *)

\* The float 1.0, in thousandths.
One == 1000

\* a * b of two fixed-point numbers.
Mul(a, b) == (a * b) \div One

Abs(a) == IF a < 0 THEN 0 - a ELSE a

\* tanh at 0.0, 0.5, ..., 4.0 (0.46212, 0.76159, 0.90515, 0.96403, 0.98661,
\* 0.99505, 0.99818, 0.99933), rounded to thousandths; 1.000 from 4.5 on.
TanhTable == <<0, 462, 762, 905, 964, 987, 995, 998, 999>>

\* F.tanh: odd, read from the table at the half-unit below |a|.
Tanh(a) ==
    LET k == (Abs(a) * 2) \div One
        t == IF k + 1 <= Len(TanhTable) THEN TanhTable[k + 1] ELSE One
    IN IF a < 0 THEN 0 - t ELSE t

\* __init__: self.fc2.weight.data.zero_();
\* self.fc2.bias.data.copy_(torch.tensor([1, 0, 0, 0, 1, 0]))
LocNetInit ==
    /\ fc2_weight = [i \in 1..6 |-> [j \in 1..HiddenDim |-> 0]]
    /\ fc2_bias = <<One, 0, 0, 0, One, 0>>

\* What tanh(fc1(dropout(features))) can be: every unit in [-1, 1].
HiddenFeatures == [1..HiddenDim -> {0 - One, 0, One}]

RECURSIVE Dot(_, _)
Dot(w, x) == IF w = <<>> THEN 0 ELSE Mul(Head(w), Head(x)) + Dot(Tail(w), Tail(x))

\* self.fc2(xs): weight @ xs + bias
Fc2(h) == [i \in 1..6 |-> Dot(fc2_weight[i], h) + fc2_bias[i]]

\* theta = F.tanh(self.fc2(xs).view(-1, 2, 3))
LocNetForward(h) ==
    LET o == Fc2(h)
    IN <<<<Tanh(o[1]), Tanh(o[2]), Tanh(o[3])>>, <<Tanh(o[4]), Tanh(o[5]), Tanh(o[6])>>>>

\* Normalized output coordinates at which the grid is looked at.
GridPoints == {<<x, y>> : x \in {0 - 500, 0, 500}, y \in {0 - 500, 0, 500}}

\* F.affine_grid: the source coordinate of output point (x, y) is theta . (x, y, 1)
AffineGrid(th) ==
    [pt \in GridPoints |->
        <<Mul(th[1][1], pt[1]) + Mul(th[1][2], pt[2]) + th[1][3],
          Mul(th[2][1], pt[1]) + Mul(th[2][2], pt[2]) + th[2][3]>>]

\* SpatialTransformerNetwork.forward(x): theta = self.localization(x);
\* grid = F.affine_grid(theta, x.size()); x = F.grid_sample(x, grid)
StnForward(h) ==
    /\ xs' = h
    /\ theta' = LocNetForward(h)
    /\ grid' = AffineGrid(LocNetForward(h))
    /\ loc_calls' = loc_calls + 1
    /\ UNCHANGED <<fc2_weight, fc2_bias, train_steps>>

\* optimizer.step(): one parameter of fc2 moves by half a unit.
Nudge(v, i, d) == [v EXCEPT ![i] = v[i] + d]

OptimizerStep ==
    /\ train_steps < MaxTrainSteps
    /\ train_steps' = train_steps + 1
    /\ \E d \in {0 - 500, 500} :
          \/ \E i \in 1..6 : fc2_bias' = Nudge(fc2_bias, i, d) /\ UNCHANGED fc2_weight
          \/ \E i \in 1..6, j \in 1..HiddenDim :
                /\ fc2_weight' = [fc2_weight EXCEPT ![i] = Nudge(fc2_weight[i], j, d)]
                /\ UNCHANGED fc2_bias
    /\ UNCHANGED <<xs, theta, grid, loc_calls>>

InitLoc ==
    /\ MetricIdle /\ TrainerIdle /\ HubIdle /\ ModelIdle /\ DecodeIdle /\ DatasetIdle
    /\ LocNetInit
    /\ xs = <<>>
    /\ theta = <<>>
    /\ grid = <<>>
    /\ loc_calls = 0
    /\ train_steps = 0

CallStnForward ==
    /\ loc_calls < MaxLocCalls
    /\ \E h \in HiddenFeatures : StnForward(h)
    /\ UNCHANGED frameLoc

TrainLoc == OptimizerStep /\ UNCHANGED frameLoc

NextLoc == CallStnForward \/ TrainLoc

SpecLoc == InitLoc /\ [][NextLoc]_vars

----------------------------------------------------------------------------
(* The decoder module (GreedyCTCDecoder, BeamCTCDecoder) that hubconf.py   *)
(* and train.py import.  A score is the class's probability at its         *)
(* time-step as a whole number of parts (every class of a time-step shares *)
(* the normaliser, so ranking by products of scores is ranking by          *)
(* cumulative log-probability).                                            *)

Classes == {blank} \cup Symbols

\* The scores of one time-step: no two classes tie.
ScoreRows ==
    {r \in [Classes -> {2, 3, 4}] : \A c, d \in Classes : c # d => r[c] # r[d]}

\* The class with the maximum score at one time-step.
ArgMax(row) == CHOOSE c \in Classes : \A d \in Classes : row[d] <= row[c]

\* The CTC reduction: collapse consecutive repeats, then drop blank.
RECURSIVE CollapseRepeats(_)
CollapseRepeats(path) ==
    IF Len(path) <= 1 THEN path
    ELSE IF path[1] = path[2] THEN CollapseRepeats(Tail(path))
         ELSE <<path[1]>> \o CollapseRepeats(Tail(path))

CtcCollapse(path) == SelectSeq(CollapseRepeats(path), NonBlankClass)

\* Greedy variant: argmax per time-step, then the CTC reduction.
GreedyDecode(logits) == CtcCollapse([t \in 1..Len(logits) |-> ArgMax(logits[t])])

\* A beam candidate is a collapsed sequence with the probability of the raw
\* paths that reduce to it, split by whether the path ends in blank (pb) or
\* not (pnb): a repeat of the last symbol extends the sequence only after a
\* blank.
LastOf(seq) == IF seq = <<>> THEN blank ELSE seq[Len(seq)]

\* Extending candidate seq (pb, pnb) by class c at scores row: where the
\* probability goes.
Extend(seq, cand, c, row) ==
    IF c = blank
    THEN {[from |-> seq, c |-> c, to |-> seq, blank_end |-> TRUE,
           mass |-> (cand.pb + cand.pnb) * row[c]]}
    ELSE IF c = LastOf(seq)
    THEN {[from |-> seq, c |-> c, to |-> seq, blank_end |-> FALSE,
           mass |-> cand.pnb * row[c]],
          [from |-> seq, c |-> c, to |-> Append(seq, c), blank_end |-> FALSE,
           mass |-> cand.pb * row[c]]}
    ELSE {[from |-> seq, c |-> c, to |-> Append(seq, c), blank_end |-> FALSE,
           mass |-> (cand.pb + cand.pnb) * row[c]]}

RECURSIVE SumMass(_)
SumMass(S) ==
    IF S = {} THEN 0
    ELSE LET x == CHOOSE y \in S : TRUE IN x.mass + SumMass(S \ {x})

\* Extend each candidate by every class and merge the extensions that reduce
\* to the same collapsed sequence, summing their probabilities.
ExtendAndMerge(beam, row) ==
    LET ext == UNION {Extend(seq, beam[seq], c, row) : seq \in DOMAIN beam, c \in Classes}
        live == {e \in ext : e.mass > 0}
    IN [seq \in {e.to : e \in live} |->
           [pb |-> SumMass({e \in live : e.to = seq /\ e.blank_end}),
            pnb |-> SumMass({e \in live : e.to = seq /\ ~e.blank_end})]]

Score(beam, seq) == beam[seq].pb + beam[seq].pnb

\* The ways of keeping the top width candidates by score (ties either way).
Prunings(beam, width) ==
    {K \in SUBSET DOMAIN beam :
        /\ Cardinality(K) = Min(width, Cardinality(DOMAIN beam))
        /\ \A a \in K, b \in (DOMAIN beam) \ K : Score(beam, a) >= Score(beam, b)}

\* Beam variant: what it can return from time-step t on.
RECURSIVE BeamOutputs(_, _, _, _)
BeamOutputs(beam, logits, t, width) ==
    IF t > Len(logits)
    THEN {seq \in DOMAIN beam : \A other \in DOMAIN beam : Score(beam, other) <= Score(beam, seq)}
    ELSE LET merged == ExtendAndMerge(beam, logits[t])
         IN UNION {BeamOutputs([seq \in K |-> merged[seq]], logits, t + 1, width) :
                      K \in Prunings(merged, width)}

BeamDecode(logits, width) ==
    BeamOutputs([seq \in {<<>>} |-> [pb |-> 1, pnb |-> 0]], logits, 1, width)

\* Both decoders run on the same logits.
Decode ==
    /\ ~decoded
    /\ decoded' = TRUE
    /\ greedy_out' = GreedyDecode(scores)
    /\ beam_out' \in BeamDecode(scores, decoder_beam_width)
    /\ UNCHANGED <<scores, decoder_beam_width>>

InitDecode ==
    /\ MetricIdle /\ TrainerIdle /\ HubIdle /\ ModelIdle /\ LocIdle /\ DatasetIdle
    /\ \E n \in 1..MaxSteps : scores \in Tuples(ScoreRows, n)
    /\ decoder_beam_width \in 1..MaxBeamWidth
    /\ greedy_out = <<>>
    /\ beam_out = <<>>
    /\ decoded = FALSE

RunDecoders == Decode /\ UNCHANGED frameDecode

NextDecode == RunDecoders

SpecDecode == InitDecode /\ [][NextDecode]_vars

----------------------------------------------------------------------------
(* dataset/dataset.py: ICVLPDataset, its vocabulary mappings.              *)

\* The symbols of the (cut down) vocabulary: the blank and two plate characters.
Chars == {"<BLANK>", "A", "B"}

\* The class attribute corpus_dict, cut down to Chars.
DefaultCorpusDict == [c \in Chars |-> IF c = "<BLANK>" THEN 0 ELSE IF c = "A" THEN 1 ELSE 2]

Range(f) == {f[k] : k \in DOMAIN f}

\* {v: k for k, v in corpus_dict.items()}, for a one-to-one corpus_dict.
LabelsOf(d) == [v \in Range(d) |-> CHOOSE k \in DOMAIN d : d[k] = v]

\* The class attribute labels_dict, derived once from the class's corpus_dict.
DefaultLabelsDict == LabelsOf(DefaultCorpusDict)

OneToOne(d) == \A j, k \in DOMAIN d : d[j] = d[k] => j = k

\* The mappings a caller may pass or assign: any one-to-one mapping of some of
\* the symbols to class indices.  __init__ checks nothing about them.
AlternateDicts ==
    {d \in UNION {[S -> 0..MaxIndex] : S \in (SUBSET Chars) \ {{}}} : OneToOne(d)}

\* __init__ with corpus_dict=None: the instance reads the class attributes.
ConstructDefault ==
    /\ corpus_dict = DefaultCorpusDict
    /\ labels_dict = DefaultLabelsDict
    /\ ds_arg = "None"

\* __init__ with a corpus_dict: if corpus_dict is not None: both are assigned.
ConstructWith(d) ==
    /\ corpus_dict = d
    /\ labels_dict = LabelsOf(d)
    /\ ds_arg = "given"

\* dataset.corpus_dict = d after construction: corpus_dict is a plain
\* attribute, the class defines no property or __setattr__, so nothing else
\* is assigned.
AssignCorpusDict(d) ==
    /\ corpus_dict' = d
    /\ UNCHANGED <<labels_dict, ds_arg>>

InitDataset ==
    /\ MetricIdle /\ TrainerIdle /\ HubIdle /\ ModelIdle /\ LocIdle /\ DecodeIdle
    /\ \/ ConstructDefault
       \/ \E d \in AlternateDicts : ConstructWith(d)
    /\ ds_sets = 0

SetCorpusDict ==
    /\ ds_sets < MaxSets
    /\ ds_sets' = ds_sets + 1
    /\ \E d \in AlternateDicts : AssignCorpusDict(d)
    /\ UNCHANGED frameDataset

NextDataset == SetCorpusDict

SpecDataset == InitDataset /\ [][NextDataset]_vars

----------------------------------------------------------------------------
(* The metric's contract, stated from the arguments of the call.           *)

RECURSIVE SumSeq(_)
SumSeq(s) == IF s = <<>> THEN 0 ELSE Head(s) + SumSeq(Tail(s))

NonBlank(token) == token # blank

\* The target row without its blank entries.
Stripped(row) == SelectSeq(row, NonBlank)

\* Positions below both lengths where the decoded and the target symbol agree.
Matches(sequence, target) ==
    Cardinality({i \in 1..Min(Len(sequence), Len(target)) : sequence[i] = target[i]})

ExpectedCorrects ==
    SumSeq([i \in 1..Len(targets.data) |-> Matches(preds[i], Stripped(targets.data[i]))])

ExpectedLengths ==
    SumSeq([i \in 1..Len(targets.data) |-> Len(Stripped(targets.data[i]))])

Called == calls # <<>>

\* C1: a forward call with a rank-2 target strips the blank entries of every
\* target row, counts the position-wise matches below the shorter length, counts
\* the full stripped target length whatever the decoded length, and returns the
\* correct count over the total length.
C1_ForwardCounts ==
    (Called /\ targets.dim = 2) =>
        /\ corrects = ExpectedCorrects
        /\ lengths = ExpectedLengths
        /\ (ExpectedLengths > 0 => ret = Rate(ExpectedCorrects, ExpectedLengths))

\* An empty decoded sequence against a padded, non-empty target, next to a
\* second sample that is partly right.
C1_Witness ==
    /\ Called /\ targets.dim = 2 /\ Len(preds) = 2
    /\ preds[1] = <<>> /\ targets.data[1] = <<1, blank>>
    /\ preds[2] = <<2, 1>> /\ targets.data[2] = <<2, 2>>
    /\ ret = Rate(1, 3)

AllEqual == \A i \in 1..Len(preds) : preds[i] = Stripped(targets.data[i])

SymbolsOf(rows) == UNION {{rows[i][j] : j \in 1..Len(rows[i])} : i \in 1..Len(rows)}

Disjoint ==
    SymbolsOf(preds) \cap SymbolsOf([i \in 1..Len(targets.data) |-> Stripped(targets.data[i])]) = {}

IsRateOne(r) == r.kind = "rate" /\ r.num = r.den
IsRateZero(r) == r.kind = "rate" /\ r.num = 0

\* C2 as stated: equal preds and stripped targets give rate 1.0, disjoint
\* symbols give rate 0.0, for every batch.
C2_AsStated ==
    (Called /\ targets.dim = 2) =>
        /\ (AllEqual => IsRateOne(ret))
        /\ (Disjoint => IsRateZero(ret))

\* C2 amended: the same for every batch with at least one non-blank target
\* symbol; a batch with none has no rate, the call raises ZeroDivisionError.
C2_RateOneOrZero ==
    (Called /\ targets.dim = 2) =>
        /\ (ExpectedLengths > 0 /\ AllEqual => IsRateOne(ret))
        /\ (ExpectedLengths > 0 /\ Disjoint => IsRateZero(ret))
        /\ (ExpectedLengths = 0 => ret = Raised("ZeroDivisionError"))

\* Two samples decoded exactly, one of them padded: rate 1.0.
C2_Witness ==
    /\ Called /\ targets.dim = 2 /\ Len(preds) = 2
    /\ targets.data[1] = <<2, blank>> /\ targets.data[2] = <<1, 2>>
    /\ AllEqual
    /\ ret = Rate(3, 3)

RateEntries == {i \in 1..Len(calls) : calls[i].ret.kind = "rate"}

\* The per-call counts of the first n forward calls, from what each returned.
ReturnedCorrects(n) == SumSeq([i \in 1..n |-> calls[i].ret.num])
ReturnedLengths(n) == SumSeq([i \in 1..n |-> calls[i].ret.den])

\* C3: the running counters are the sums of the per-call counts of the calls
\* made so far, 0 <= corrects <= lengths, neither counter ever decreases, and
\* result() returns the quotient of the sums over all the calls made before it,
\* which is not the per-call rate forward returned.
C3_RunningCounters ==
    /\ [](/\ corrects = ReturnedCorrects(Len(calls))
          /\ lengths = ReturnedLengths(Len(calls))
          /\ 0 <= corrects /\ corrects <= lengths
          /\ (cumulative.value.kind = "rate" =>
                 /\ cumulative.value.num = ReturnedCorrects(cumulative.after)
                 /\ cumulative.value.den = ReturnedLengths(cumulative.after)))
    /\ [][corrects' >= corrects /\ lengths' >= lengths]_vars

\* Two successful calls, the second returning 2/2 while result() gives 3/4.
C3_Witness ==
    /\ Len(calls) = 2 /\ RateEntries = {1, 2}
    /\ ret = Rate(2, 2)
    /\ cumulative = [value |-> Rate(3, 4), after |-> 2]

\* C4: a forward call whose target is not rank-2 raises ValueError and leaves
\* both running counters as they were.
C4_RankCheck ==
    [][(calls' # calls /\ targets'.dim # 2) =>
          /\ ret' = Raised("ValueError")
          /\ corrects' = corrects
          /\ lengths' = lengths]_vars

\* A rank-3 target refused after a successful call had counted something.
C4_Witness ==
    /\ Len(calls) = 2 /\ calls[1].ret.kind = "rate"
    /\ targets.dim = 3 /\ ret = Raised("ValueError")
    /\ corrects = 1 /\ lengths = 2

\* The forward calls of one epoch: one per training and per validation batch.
CallsPerEpoch == Len(dl_train) + Len(dl_val)

\* The per-call counts of the last n forward calls.
LastCorrects(n) == SumSeq([i \in 1..n |-> calls[Len(calls) - n + i].ret.num])
LastLengths(n) == SumSeq([i \in 1..n |-> calls[Len(calls) - n + i].ret.den])

\* C5 as stated: the metric is reset between epochs, so at the end of an epoch
\* the running counters, and with them the cumulative rate, hold the counts of
\* that epoch's batches only.
C5_ResetBetweenEpochs ==
    pc = "epoch_end" =>
        /\ corrects = LastCorrects(CallsPerEpoch)
        /\ lengths = LastLengths(CallsPerEpoch)

HubFailed == hub_ret.kind \in {"AssertionError", "UnboundLocalError"}

\* C6: decoder() accepts exactly the kinds greedy and beam, greedy when the
\* kind is left out, the beam decoder built with the beam_width given and with 5
\* when it is left out; any other kind ends in an error and the call constructs
\* no decoder.
C6_DecoderSelection ==
    /\ [](hub_calls > 0 =>
            LET given == "decoder" \in DOMAIN hub_kwargs
                width == IF "beam_width" \in DOMAIN hub_kwargs
                         THEN hub_kwargs.beam_width ELSE 5
            IN /\ (~given \/ hub_kwargs.decoder = "greedy") =>
                      hub_ret = [kind |-> "GreedyCTCDecoder", kwargs |-> <<>>]
               /\ (given /\ hub_kwargs.decoder = "beam") =>
                      hub_ret = [kind |-> "BeamCTCDecoder", kwargs |-> [beam_width |-> width]]
               /\ (given /\ hub_kwargs.decoder \notin {"greedy", "beam"}) => HubFailed
               /\ (~HubFailed => constructed[Len(constructed)] = hub_ret))
    /\ [][(hub_calls' # hub_calls /\ hub_ret'.kind \in {"AssertionError", "UnboundLocalError"})
            => constructed' = constructed]_vars

\* An unknown kind refused after a beam decoder was built with the default
\* width.
C6_Witness ==
    /\ hub_calls = 2
    /\ constructed = <<[kind |-> "BeamCTCDecoder", kwargs |-> [beam_width |-> 5]]>>
    /\ hub_kwargs = [decoder |-> "viterbi", beam_width |-> 2]
    /\ hub_ret.kind = "AssertionError"

\* C8: stn(enable) sets the rectifier flag and leaves the fusion flag, gc(enable)
\* sets the fusion flag and leaves the rectifier flag, and a forward call runs
\* the rectifier iff the rectifier flag is on and the fusion iff the fusion flag
\* is on at that call, whatever the constructor was given.
C8_RuntimeToggles ==
    [][model_ops' # model_ops =>
          /\ (model_op'.op = "stn" => with_stn' = model_op'.enable /\ with_gc' = with_gc)
          /\ (model_op'.op = "gc" => with_gc' = model_op'.enable /\ with_stn' = with_stn)
          /\ (model_op'.op = "forward" =>
                 /\ with_stn' = with_stn /\ with_gc' = with_gc
                 /\ (\E i \in 1..Len(stages') : stages'[i] = "stn_layer") <=> with_stn
                 /\ (\E i \in 1..Len(stages') : stages'[i] = "forward_global_context") <=> with_gc)]_vars

\* Built with both stages on, the rectifier switched off and the fusion left on:
\* the next forward call runs the fusion and not the rectifier.
C8_Witness ==
    /\ ctor.stn /\ ctor.gc
    /\ ~with_stn /\ with_gc
    /\ model_op.op = "forward" /\ model_ops = 2
    /\ stages = <<"backbone", "forward_global_context", "pre_decoder">>

IdentityTheta == <<<<1000, 0, 0>>, <<0, 1000, 0>>>>

\* C9: an untrained LocalizationNetwork returns the identity 2 x 3 matrix for
\* every input, and the sampling grid built from it maps every point to itself.
C9_IdentityAtConstruction ==
    (loc_calls > 0 /\ train_steps = 0) =>
        /\ theta = IdentityTheta
        /\ \A pt \in GridPoints : grid[pt] = pt

\* C7: with beam_width = 1 the beam decoder returns, for every grid, what the
\* greedy decoder returns.
C7_BeamOneIsGreedy ==
    (decoded /\ decoder_beam_width = 1) => beam_out = greedy_out

\* C14: in a training run the rectifier is off when the model is initialised,
\* is switched on only by the start of an epoch past the milestone
\* (epoch > stn_enable_at), every train() and eval() of an epoch up to the
\* milestone runs with it off and every one past the milestone with it on, and
\* once on it is never switched off.
C14_RectifierOneWay ==
    /\ [](/\ (epoch = 0 => ~using_stn)
          /\ (using_stn => epoch > args.stn_enable_at)
          /\ \A r \in stn_log : r.using_stn <=> r.epoch > args.stn_enable_at)
    /\ [][using_stn => using_stn']_vars
    /\ [][(~using_stn /\ using_stn') =>
            (pc = "loop" /\ pc' = "train" /\ epoch' > args.stn_enable_at)]_vars

\* A run of two epochs with the milestone at 1: epoch 1 ran with the rectifier
\* off, epoch 2 with it on.
C14_Witness ==
    /\ pc = "done"
    /\ args.stn_enable_at = 1
    /\ [epoch |-> 1, phase |-> "eval", using_stn |-> FALSE] \in stn_log
    /\ [epoch |-> 2, phase |-> "train", using_stn |-> TRUE] \in stn_log
    /\ using_stn

\* The epochs a run has to save: the multiples of the interval among the epochs
\* it runs, and the last epoch when save_last is on.
EpochsToSave ==
    IF args.epoch_start < args.epoch_end
    THEN {e \in (args.epoch_start + 1)..args.epoch_end :
              e % args.checkpoint_save_interval = 0}
         \cup (IF args.save_last THEN {args.epoch_end} ELSE {})
    ELSE {}

SavesOf(e) == {k \in 1..Len(saved) : saved[k].epoch = e}

\* C16: over run() and cleanup(), every epoch that has to be saved is saved
\* exactly once, the last epoch included and never twice, no other epoch is
\* saved, and nothing is saved when no epoch ran.
C16_CheckpointsOnce ==
    /\ \A k \in 1..Len(saved) :
           /\ saved[k].epoch \in EpochsToSave
           /\ Cardinality(SavesOf(saved[k].epoch)) = 1
    /\ (pc = "done" => \A e \in EpochsToSave : Cardinality(SavesOf(e)) = 1)

\* save_last is on and the last epoch, 2, is a multiple of the interval: it was
\* saved by save() and not again by cleanup().
C16_Witness ==
    /\ pc = "done"
    /\ args.epoch_start = 0 /\ args.epoch_end = 2
    /\ args.checkpoint_save_interval = 2 /\ args.save_last
    /\ saved = <<[epoch |-> 2, by |-> "save"]>>

\* C11: in the vocabulary mapping of every constructed dataset, the default or
\* a mapping the caller supplied, only the blank is mapped to index 0.
C11_BlankReserved ==
    ds_arg # "none" =>
        \A c \in DOMAIN corpus_dict : corpus_dict[c] = 0 => c = "<BLANK>"

\* C12: in every state of a dataset object, after construction and after any
\* later change of corpus_dict, labels_dict is the inverse of corpus_dict:
\* labels_dict[corpus_dict[s]] = s for every symbol s, and no other keys.
C12_ReverseDerived ==
    ds_arg # "none" =>
        /\ DOMAIN labels_dict = Range(corpus_dict)
        /\ \A c \in DOMAIN corpus_dict : labels_dict[corpus_dict[c]] = c

\* C13: for a batch of N three-channel 24 x 94 images, forward returns a logit
\* grid of shape (N, num_classes, T), whatever the two toggles are.
C13_LogitGridShape ==
    (model_op.op = "forward" /\ x_in.shape[2] = 3 /\ ctor.input_channels = 3) =>
        /\ out.kind = "Tensor"
        /\ Len(out.shape) = 3
        /\ out.shape[1] = x_in.shape[1]
        /\ out.shape[2] = ctor.num_classes

LayerTypeAt(i) == Backbone(3)[i].type

\* C15: the four maps forward_global_context takes by position are the outputs
\* of two basic blocks and of the two pooling layers that follow them
\* immediately, and the fifth input is the last output of the backbone.
C15_FusionStagePoints ==
    fusion # <<>> =>
        /\ Len(fusion) = 5
        /\ fusion[5] = BackboneNames[Len(BackboneNames)]
        /\ \E i, j \in 1..(Len(BackboneNames) - 1) :
              /\ i < j
              /\ LayerTypeAt(i) = "SmallBasicBlock" /\ LayerTypeAt(i + 1) = "MaxPool2d"
              /\ LayerTypeAt(j) = "SmallBasicBlock" /\ LayerTypeAt(j + 1) = "MaxPool2d"
              /\ {fusion[k] : k \in 1..4} =
                    {BackboneNames[i], BackboneNames[i + 1],
                     BackboneNames[j], BackboneNames[j + 1]}

====
